---- MODULE Spec2Model ----
(***************************************************************************)
(* A model of src/syntax/ast/builder.rs of conch-parser: the default       *)
(* methods of the CommandBuilder trait (the reference builder, used by     *)
(* DefaultBuilder), driven by a grammar reader that calls one production   *)
(* at a time and threads returned Command nodes back in as arguments.      *)
(***************************************************************************)
EXTENDS Naturals, Sequences, FiniteSets

VARIABLES
    debug_assertions,  \* whether the crate is built with debug assertions
    implementor,       \* the CommandBuilder type the reader is instantiated with
    built,             \* the Command nodes the reader holds (returned by earlier calls)
    last,              \* the production call that has just returned: op, args, res
    pc                 \* the reader's position: "ready" to call, or a call "returned"

vars == <<debug_assertions, implementor, built, last, pc>>

----------------------------------------------------------------------------
(* Bounds of the model. *)

\* longest list handed to a production
MaxLen == 2
\* most list elements (words, redirects, assignments, commands, trivia) in one call
MaxElems == 2
\* most trivia elements (comments, newlines) among them
MaxTrivia == 1
\* most nodes the reader holds at once
MaxBuilt == 2
\* most the reader holds at once, as command nodes plus the elements they store
MaxKeep == 2

----------------------------------------------------------------------------
(* Opaque pass-through values. *)

Word == {"w1", "w2"}
Redirect == {"r1", "r2"}
Newline == {"n1", "n2"}
Name == {"i", "j"}

\* Option<T>: None, Some(x)
None == <<>>
Some(x) == <<x>>
IsSome(o) == Len(o) = 1

\* (String, Option<Word>) environment assignments
EnvVar == {<<"a", None>>, <<"b", Some("w1")>>}

Min(a, b) == IF a <= b THEN a ELSE b

\* Vec<T> values of at most n elements of S
SeqsUpTo(S, n) == UNION {[1..k -> S] : k \in 0..n}

\* Vec<T> values that fit both the list bound and a remaining element budget
Vecs(S, budget) == SeqsUpTo(S, Min(MaxLen, budget))

RECURSIVE SumLen(_)
SumLen(ss) == IF ss = <<>> THEN 0 ELSE Len(ss[1]) + SumLen(Tail(ss))

----------------------------------------------------------------------------
(* The AST nodes the builder constructs (syntax::ast). *)

Simple(cmd, vars_, args, io) ==
    [tag |-> "Simple", cmd |-> cmd, vars |-> vars_, args |-> args, io |-> io]
Pipe(bang, cmds) == [tag |-> "Pipe", bang |-> bang, cmds |-> cmds]
And(first, second) == [tag |-> "And", first |-> first, second |-> second]
Or(first, second) == [tag |-> "Or", first |-> first, second |-> second]
Job(cmd) == [tag |-> "Job", job |-> cmd]
Function(name, body) == [tag |-> "Function", name |-> name, fbody |-> body]
Compound(compound, redirects) ==
    [tag |-> "Compound", compound |-> compound, redirects |-> redirects]

Brace(cmds) == [ctag |-> "Brace", cmds |-> cmds]
Subshell(cmds) == [ctag |-> "Subshell", cmds |-> cmds]
While(guard, body) == [ctag |-> "While", guard |-> guard, body |-> body]
Until(guard, body) == [ctag |-> "Until", guard |-> guard, body |-> body]
If(branches, else_part) == [ctag |-> "If", branches |-> branches, els |-> else_part]
For(var, in_words, body) ==
    [ctag |-> "For", var |-> var, words |-> in_words, body |-> body]
Case(word, arms) == [ctag |-> "Case", word |-> word, arms |-> arms]

\* Result<T, Err>, and a call that does not return (a panic)
Ok(v) == [res |-> "Ok", val |-> v]
Err(e) == [res |-> "Err", err |-> e]
Panic == [res |-> "Panic"]
Unit == [tag |-> "Unit"]

----------------------------------------------------------------------------
(* Argument enumerations of the declared types. *)

SeparatorKind ==
    {[sep |-> "Semi"], [sep |-> "Amp"], [sep |-> "Other"]}
        \cup {[sep |-> "Newline", nl |-> n] : n \in Newline}
AndOrKind == {"And", "Or"}
LoopKind == {"While", "Until"}

\* Option<Vec<T>> values within a budget
OptVecs(S, budget) == {None} \cup {Some(v) : v \in Vecs(S, budget)}
OptLen(o) == IF IsSome(o) THEN Len(o[1]) ELSE 0

\* Lists of at most n weighted elements <<e, elems, trivia>> of EW (elems
\* counts the trivia too), holding at most budget elements in all, at most
\* tbudget of them trivia
RECURSIVE ListsWithin(_, _, _, _)
ListsWithin(EW, n, budget, tbudget) ==
    IF n = 0 THEN {<<>>}
    ELSE {<<>>} \cup
         UNION {{<<ew[1]>> \o rest :
                    rest \in ListsWithin(EW, n - 1, budget - ew[2], tbudget - ew[3])}
                    : ew \in {x \in EW : x[2] <= budget /\ x[3] <= tbudget}}

\* pipeline stages (trivia, command): the command counts as one element
Stages ==
    {<<<<t, c>>, 1 + Len(t), Len(t)>> : t \in Vecs(Newline, MaxTrivia), c \in built}

\* if branches (guard, body)
Branches ==
    {<<<<g, b>>, Len(g) + Len(b), 0>> :
        g \in Vecs(built, MaxElems), b \in Vecs(built, MaxElems)}

\* case arms ((trivia, patterns, trivia), body)
Arms ==
    {<<<< <<t1, ps, t2>>, b>>, Len(t1) + Len(ps) + Len(t2) + Len(b), Len(t1) + Len(t2)>> :
        t1 \in Vecs(Newline, MaxTrivia), ps \in Vecs(Word, MaxElems),
        t2 \in Vecs(Newline, MaxTrivia), b \in Vecs(built, MaxElems)}

RECURSIVE Concat(_)
Concat(ss) == IF Len(ss) = 0 THEN <<>> ELSE ss[1] \o Concat(Tail(ss))

----------------------------------------------------------------------------
(* The default methods of CommandBuilder. *)

\* a variant that shrinks one element too far
ShrinkToFit_DropsLast(v) == SubSeq(v, 1, Len(v) - 1)

\* Vec::shrink_to_fit: drops spare capacity, keeps the len elements in place
ShrinkToFit(v) == SubSeq(v, 1, Len(v))

\* a variant that takes a newline-terminated command for a job
complete_command_NewlineJob(pre_cmd_comments, cmd, separator, pos_cmd_comments) ==
    CASE separator.sep \in {"Semi", "Other"} -> Ok(cmd)
      [] separator.sep \in {"Amp", "Newline"} -> Ok(Job(cmd))

complete_command(pre_cmd_comments, cmd, separator, pos_cmd_comments) ==
    CASE separator.sep \in {"Semi", "Other", "Newline"} -> Ok(cmd)
      [] separator.sep = "Amp" -> Ok(Job(cmd))

\* a variant that boxes the operands the wrong way round
and_or_Swapped(first, kind, post_separator_comments, second) ==
    CASE kind = "And" -> Ok(And(second, first))
      [] kind = "Or" -> Ok(Or(second, first))

and_or(first, kind, post_separator_comments, second) ==
    CASE kind = "And" -> Ok(And(first, second))
      [] kind = "Or" -> Ok(Or(first, second))

\* a variant that wraps every pipeline, a single plain stage included
pipeline_AlwaysPipe(bang, cmds) ==
    IF debug_assertions /\ Len(cmds) = 0
    THEN Panic
    ELSE Ok(Pipe(bang, ShrinkToFit([i \in 1..Len(cmds) |-> cmds[i][2]])))

\* a variant that collects the stages back to front
pipeline_Reversed(bang, cmds) ==
    IF debug_assertions /\ Len(cmds) = 0
    THEN Panic
    ELSE LET cs == [i \in 1..Len(cmds) |-> cmds[Len(cmds) + 1 - i][2]]
         IN  IF bang \/ Len(cs) > 1
             THEN Ok(Pipe(bang, ShrinkToFit(cs)))
             ELSE IF Len(cs) = 0 THEN Panic ELSE Ok(cs[Len(cs)])

\* a variant whose length test is off by one (len >= 1 for len > 1)
pipeline_OffByOne(bang, cmds) ==
    IF debug_assertions /\ Len(cmds) = 0
    THEN Panic
    ELSE LET cs == [i \in 1..Len(cmds) |-> cmds[i][2]]
         IN  IF bang \/ Len(cs) >= 1
             THEN Ok(Pipe(bang, ShrinkToFit(cs)))
             ELSE IF Len(cs) = 0 THEN Panic ELSE Ok(cs[Len(cs)])

pipeline(bang, cmds) ==
    IF debug_assertions /\ Len(cmds) = 0
    THEN Panic                                \* debug_assert_eq!(cmds.is_empty(), false)
    ELSE LET cs == [i \in 1..Len(cmds) |-> cmds[i][2]]
         IN  IF bang \/ Len(cs) > 1
             THEN Ok(Pipe(bang, ShrinkToFit(cs)))
             ELSE IF Len(cs) = 0
                  THEN Panic                  \* cmds.pop() is None: unwrap() panics
                  ELSE Ok(cs[Len(cs)])        \* cmds.pop().unwrap()

\* a variant that rejects a simple command without a command name
simple_command_NeedsName(env_vars, cmd, args, redirects) ==
    IF cmd = None
    THEN Err("DummyError")
    ELSE Ok(Simple(cmd, ShrinkToFit(env_vars), ShrinkToFit(args),
                   ShrinkToFit(redirects)))

simple_command(env_vars, cmd, args, redirects) ==
    Ok(Simple(cmd, ShrinkToFit(env_vars), ShrinkToFit(args), ShrinkToFit(redirects)))

brace_group(cmds, redirects) ==
    Ok(Compound(Brace(ShrinkToFit(cmds)), ShrinkToFit(redirects)))

subshell(cmds, redirects) ==
    Ok(Compound(Subshell(ShrinkToFit(cmds)), ShrinkToFit(redirects)))

\* a variant that stores the body where the guard belongs
loop_command_GuardBodySwapped(kind, guard, body, redirects) ==
    LET loop_cmd ==
            CASE kind = "While" -> While(ShrinkToFit(body), ShrinkToFit(guard))
              [] kind = "Until" -> Until(ShrinkToFit(body), ShrinkToFit(guard))
    IN  Ok(Compound(loop_cmd, ShrinkToFit(redirects)))

loop_command(kind, guard, body, redirects) ==
    LET loop_cmd ==
            CASE kind = "While" -> While(ShrinkToFit(guard), ShrinkToFit(body))
              [] kind = "Until" -> Until(ShrinkToFit(guard), ShrinkToFit(body))
    IN  Ok(Compound(loop_cmd, ShrinkToFit(redirects)))

\* a variant that stores the branches last first
if_command_Reversed(branches, else_part, redirects) ==
    LET bs == [i \in 1..Len(branches) |->
                  <<ShrinkToFit(branches[Len(branches) + 1 - i][1]),
                    ShrinkToFit(branches[Len(branches) + 1 - i][2])>>]
        els == [i \in 1..Len(else_part) |-> ShrinkToFit(else_part[i])]
    IN  Ok(Compound(If(bs, els), ShrinkToFit(redirects)))

if_command(branches, else_part, redirects) ==
    LET bs == [i \in 1..Len(branches) |->
                  <<ShrinkToFit(branches[i][1]), ShrinkToFit(branches[i][2])>>]
        els == [i \in 1..Len(else_part) |-> ShrinkToFit(else_part[i])]
    IN  Ok(Compound(If(bs, els), ShrinkToFit(redirects)))

\* a variant that takes a present but empty word list for an absent one
for_command_EmptyIsAbsent(var, post_var_comments, in_words, post_word_comments, body, redirects) ==
    LET ws == IF in_words = Some(<<>>) THEN None
              ELSE [i \in 1..Len(in_words) |-> ShrinkToFit(in_words[i])]
    IN  Ok(Compound(For(var, ws, ShrinkToFit(body)), ShrinkToFit(redirects)))

for_command(var, post_var_comments, in_words, post_word_comments, body, redirects) ==
    LET ws == [i \in 1..Len(in_words) |-> ShrinkToFit(in_words[i])]
    IN  Ok(Compound(For(var, ws, ShrinkToFit(body)), ShrinkToFit(redirects)))

\* a variant that keeps the comments before a pattern list among its patterns
case_command_KeepsComments(word, post_word_comments, branches, post_branch_comments, redirects) ==
    LET bs == [i \in 1..Len(branches) |->
                  <<ShrinkToFit(branches[i][1][1] \o branches[i][1][2]),
                    ShrinkToFit(branches[i][2])>>]
    IN  Ok(Compound(Case(word, bs), ShrinkToFit(redirects)))

case_command(word, post_word_comments, branches, post_branch_comments, redirects) ==
    LET bs == [i \in 1..Len(branches) |->
                  <<ShrinkToFit(branches[i][1][2]), ShrinkToFit(branches[i][2])>>]
    IN  Ok(Compound(Case(word, bs), ShrinkToFit(redirects)))

function_declaration(name, body) == Ok(Function(name, body))

\* a variant that reports a non-empty trivia list as an error
comments_RejectsNonEmpty(comments_) ==
    IF Len(comments_) = 0 THEN Ok(Unit) ELSE Err("DummyError")

comments(comments_) == Ok(Unit)

----------------------------------------------------------------------------
(* The implementors of CommandBuilder and the adapter to Builder. *)

\* the types the reader is instantiated with: DefaultBuilder, which inherits
\* every default method, and a builder that overrides the productions that
\* take trivia and fails them with an error reporting what it received
Implementor == {"DefaultBuilder", "ProbeBuilder"}

Overridden ==
    {"complete_command", "and_or", "pipeline", "for_command", "case_command",
     "comments"}

\* the error of an overriding method: its name and each argument as received
Seen(op, args) == Err([method |-> op, seen |-> args])

(* CommandBuilder::m(self, ...): the method of the implementor's own impl
   where it has one, the trait's default method otherwise. *)
CommandBuilder_complete_command(T, pre_cmd_comments, cmd, separator, post_cmd_comments) ==
    IF T = "ProbeBuilder"
    THEN Seen("complete_command",
              [pre |-> pre_cmd_comments, cmd |-> cmd,
               separator |-> separator, post |-> post_cmd_comments])
    ELSE complete_command(pre_cmd_comments, cmd, separator, post_cmd_comments)

CommandBuilder_and_or(T, first, kind, post_separator_comments, second) ==
    IF T = "ProbeBuilder"
    THEN Seen("and_or",
              [first |-> first, kind |-> kind,
               trivia |-> post_separator_comments, second |-> second])
    ELSE and_or(first, kind, post_separator_comments, second)

CommandBuilder_pipeline(T, bang, cmds) ==
    IF T = "ProbeBuilder"
    THEN Seen("pipeline", [bang |-> bang, cmds |-> cmds])
    ELSE pipeline(bang, cmds)

CommandBuilder_simple_command(T, env_vars, cmd, args, redirects) ==
    simple_command(env_vars, cmd, args, redirects)

CommandBuilder_brace_group(T, cmds, redirects) ==
    brace_group(cmds, redirects)

CommandBuilder_subshell(T, cmds, redirects) ==
    subshell(cmds, redirects)

CommandBuilder_loop_command(T, kind, guard, body, redirects) ==
    loop_command(kind, guard, body, redirects)

CommandBuilder_if_command(T, branches, else_part, redirects) ==
    if_command(branches, else_part, redirects)

CommandBuilder_for_command(T, var, post_var_comments, in_words, post_word_comments, body, redirects) ==
    IF T = "ProbeBuilder"
    THEN Seen("for_command",
              [var |-> var, t1 |-> post_var_comments, in_words |-> in_words,
               t2 |-> post_word_comments, body |-> body,
               redirects |-> redirects])
    ELSE for_command(var, post_var_comments, in_words, post_word_comments, body, redirects)

CommandBuilder_case_command(T, word, post_word_comments, branches, post_branch_comments, redirects) ==
    IF T = "ProbeBuilder"
    THEN Seen("case_command",
              [word |-> word, t1 |-> post_word_comments,
               branches |-> branches, t2 |-> post_branch_comments,
               redirects |-> redirects])
    ELSE case_command(word, post_word_comments, branches, post_branch_comments, redirects)

CommandBuilder_function_declaration(T, name, body) ==
    function_declaration(name, body)

CommandBuilder_comments(T, comments_) ==
    IF T = "ProbeBuilder"
    THEN Seen("comments", [comments |-> comments_])
    ELSE comments(comments_)

(* impl<T: CommandBuilder> Builder for T: each method hands its arguments
   on to the method of the same name of CommandBuilder. *)

\* a variant that hands the two comment lists on in each other's place
Builder_complete_command_Swapped(T, pre_cmd_comments, cmd, separator, post_cmd_comments) ==
    CommandBuilder_complete_command(T, post_cmd_comments, cmd, separator, pre_cmd_comments)

Builder_complete_command(T, pre_cmd_comments, cmd, separator, post_cmd_comments) ==
    CommandBuilder_complete_command(T, pre_cmd_comments, cmd, separator, post_cmd_comments)

Builder_and_or(T, first, kind, post_separator_comments, second) ==
    CommandBuilder_and_or(T, first, kind, post_separator_comments, second)

Builder_pipeline(T, bang, cmds) ==
    CommandBuilder_pipeline(T, bang, cmds)

Builder_simple_command(T, env_vars, cmd, args, redirects) ==
    CommandBuilder_simple_command(T, env_vars, cmd, args, redirects)

Builder_brace_group(T, cmds, redirects) ==
    CommandBuilder_brace_group(T, cmds, redirects)

Builder_subshell(T, cmds, redirects) ==
    CommandBuilder_subshell(T, cmds, redirects)

Builder_loop_command(T, kind, guard, body, redirects) ==
    CommandBuilder_loop_command(T, kind, guard, body, redirects)

Builder_if_command(T, branches, else_part, redirects) ==
    CommandBuilder_if_command(T, branches, else_part, redirects)

Builder_for_command(T, var, post_var_comments, in_words, post_word_comments, body, redirects) ==
    CommandBuilder_for_command(T, var, post_var_comments, in_words, post_word_comments, body, redirects)

Builder_case_command(T, word, post_word_comments, branches, post_branch_comments, redirects) ==
    CommandBuilder_case_command(T, word, post_word_comments, branches, post_branch_comments, redirects)

Builder_function_declaration(T, name, body) ==
    CommandBuilder_function_declaration(T, name, body)

Builder_comments(T, comments_) ==
    CommandBuilder_comments(T, comments_)

----------------------------------------------------------------------------
(* Walking a Command tree. *)

\* the commands a compound command directly owns
CompoundBody(k) ==
    CASE k.ctag \in {"Brace", "Subshell"} -> k.cmds
      [] k.ctag \in {"While", "Until"} -> k.guard \o k.body
      [] k.ctag = "If" ->
            Concat([i \in 1..Len(k.branches) |-> k.branches[i][1] \o k.branches[i][2]])
                \o Concat(k.els)
      [] k.ctag = "For" -> k.body
      [] k.ctag = "Case" -> Concat([i \in 1..Len(k.arms) |-> k.arms[i][2]])

\* the commands a node directly owns
SubCommands(c) ==
    CASE c.tag = "Simple" -> <<>>
      [] c.tag = "Pipe" -> c.cmds
      [] c.tag \in {"And", "Or"} -> <<c.first, c.second>>
      [] c.tag = "Job" -> <<c.job>>
      [] c.tag = "Function" -> <<c.fbody>>
      [] c.tag = "Compound" -> CompoundBody(c.compound)

\* the list elements other than commands that a node stores (words,
\* assignments, redirects, branches, arms, a present option)
Stored(c) ==
    CASE c.tag = "Simple" -> Len(c.cmd) + Len(c.vars) + Len(c.args) + Len(c.io)
      [] c.tag = "Compound" ->
            Len(c.redirects) +
            (CASE c.compound.ctag = "If" ->
                     Len(c.compound.branches) + Len(c.compound.els)
               [] c.compound.ctag = "For" ->
                     Len(c.compound.words) + OptLen(c.compound.words)
               [] c.compound.ctag = "Case" ->
                     Len(c.compound.arms) +
                     SumLen([i \in 1..Len(c.compound.arms) |-> c.compound.arms[i][1]])
               [] OTHER -> 0)
      [] OTHER -> 0

\* command nodes plus stored elements of a tree
RECURSIVE Size(_)
Size(c) ==
    LET sub == SubCommands(c)
        RECURSIVE Sum(_)
        Sum(i) == IF i = 0 THEN 0 ELSE Size(sub[i]) + Sum(i - 1)
    IN  1 + Stored(c) + Sum(Len(sub))

\* what a set of trees holds in all
RECURSIVE Held(_)
Held(cs) ==
    IF cs = {} THEN 0
    ELSE LET c == CHOOSE x \in cs : TRUE IN Size(c) + Held(cs \ {c})

\* every node of a tree, the root included
RECURSIVE Nodes(_)
Nodes(c) == {c} \cup UNION {Nodes(SubCommands(c)[i]) : i \in 1..Len(SubCommands(c))}

----------------------------------------------------------------------------
(* The grammar reader: one production call at a time, bottom-up. *)

NoCall == [op |-> "none"]

Init ==
    /\ debug_assertions \in BOOLEAN
    /\ implementor = "DefaultBuilder"
    /\ built = {}
    /\ last = NoCall
    /\ pc = "ready"

\* a production is called with args and returns (or panics with) res
Call(op, args, res) ==
    /\ last' = [op |-> op, args |-> args, res |-> res]
    /\ pc' = "returned"
    /\ UNCHANGED <<debug_assertions, implementor, built>>

CompleteCommand ==
    /\ pc = "ready"
    /\ \E pre \in Vecs(Newline, MaxTrivia), cmd \in built, separator \in SeparatorKind :
         \E post \in Vecs(Newline, MaxTrivia - Len(pre)) :
           Call("complete_command",
                [pre |-> pre, cmd |-> cmd, separator |-> separator, post |-> post],
                Builder_complete_command(implementor, pre, cmd, separator, post))

AndOr ==
    /\ pc = "ready"
    /\ \E first \in built, kind \in AndOrKind, second \in built,
          trivia \in Vecs(Newline, MaxTrivia) :
           Call("and_or",
                [first |-> first, kind |-> kind, trivia |-> trivia, second |-> second],
                Builder_and_or(implementor, first, kind, trivia, second))

Pipeline ==
    /\ pc = "ready"
    /\ \E bang \in BOOLEAN, cmds \in ListsWithin(Stages, MaxLen, MaxElems, MaxTrivia) :
           Call("pipeline", [bang |-> bang, cmds |-> cmds],
                Builder_pipeline(implementor, bang, cmds))

SimpleCommand ==
    /\ pc = "ready"
    /\ \E env_vars \in Vecs(EnvVar, MaxElems), cmd \in {None} \cup {Some(w) : w \in Word} :
         \E args \in Vecs(Word, MaxElems - Len(env_vars)) :
           \E redirects \in Vecs(Redirect, MaxElems - Len(env_vars) - Len(args)) :
             Call("simple_command",
                  [env_vars |-> env_vars, cmd |-> cmd, args |-> args,
                   redirects |-> redirects],
                  Builder_simple_command(implementor, env_vars, cmd, args, redirects))

BraceGroup ==
    /\ pc = "ready"
    /\ \E cmds \in Vecs(built, MaxElems) :
         \E redirects \in Vecs(Redirect, MaxElems - Len(cmds)) :
           Call("brace_group", [cmds |-> cmds, redirects |-> redirects],
                Builder_brace_group(implementor, cmds, redirects))

SubshellCommand ==
    /\ pc = "ready"
    /\ \E cmds \in Vecs(built, MaxElems) :
         \E redirects \in Vecs(Redirect, MaxElems - Len(cmds)) :
           Call("subshell", [cmds |-> cmds, redirects |-> redirects],
                Builder_subshell(implementor, cmds, redirects))

LoopCommand ==
    /\ pc = "ready"
    /\ \E kind \in LoopKind, guard \in Vecs(built, MaxElems) :
         \E body \in Vecs(built, MaxElems - Len(guard)) :
           \E redirects \in Vecs(Redirect, MaxElems - Len(guard) - Len(body)) :
             Call("loop_command",
                  [kind |-> kind, guard |-> guard, body |-> body, redirects |-> redirects],
                  Builder_loop_command(implementor, kind, guard, body, redirects))

IfCommand ==
    /\ pc = "ready"
    /\ \E branches \in ListsWithin(Branches, MaxLen, MaxElems, 0) :
         LET used == SumLen([i \in 1..Len(branches) |-> branches[i][1] \o branches[i][2]])
         IN  \E else_part \in OptVecs(built, MaxElems - used) :
               \E redirects \in Vecs(Redirect, MaxElems - used - OptLen(else_part)) :
                 Call("if_command",
                      [branches |-> branches, else_part |-> else_part,
                       redirects |-> redirects],
                      Builder_if_command(implementor, branches, else_part, redirects))

ForCommand ==
    /\ pc = "ready"
    /\ \E var \in Name, t1 \in Vecs(Newline, MaxTrivia) :
         \E t2 \in OptVecs(Newline, MaxTrivia - Len(t1)) :
           \E in_words \in OptVecs(Word, MaxElems - Len(t1) - OptLen(t2)) :
             LET used == Len(t1) + OptLen(t2) + OptLen(in_words)
             IN  \E body \in Vecs(built, MaxElems - used) :
                   \E redirects \in Vecs(Redirect, MaxElems - used - Len(body)) :
                     Call("for_command",
                          [var |-> var, t1 |-> t1, in_words |-> in_words, t2 |-> t2,
                           body |-> body, redirects |-> redirects],
                          Builder_for_command(implementor, var, t1, in_words, t2, body, redirects))

CaseCommand ==
    /\ pc = "ready"
    /\ \E word \in Word, t1 \in Vecs(Newline, MaxTrivia) :
         \E branches \in ListsWithin(Arms, MaxLen, MaxElems - Len(t1),
                                     MaxTrivia - Len(t1)) :
           LET tused == Len(t1) +
                        SumLen([i \in 1..Len(branches) |->
                                  branches[i][1][1] \o branches[i][1][3]])
               used == tused +
                       SumLen([i \in 1..Len(branches) |->
                                 branches[i][1][2] \o branches[i][2]])
           IN  \E t2 \in Vecs(Newline, Min(MaxTrivia - tused, MaxElems - used)) :
                 \E redirects \in Vecs(Redirect, MaxElems - used - Len(t2)) :
                   Call("case_command",
                        [word |-> word, t1 |-> t1, branches |-> branches, t2 |-> t2,
                         redirects |-> redirects],
                        Builder_case_command(implementor, word, t1, branches, t2, redirects))

FunctionDeclaration ==
    /\ pc = "ready"
    /\ \E name \in Name, body \in built :
           Call("function_declaration", [name |-> name, body |-> body],
                Builder_function_declaration(implementor, name, body))

Comments ==
    /\ pc = "ready"
    /\ \E trivia \in Vecs(Newline, MaxTrivia) :
           Call("comments", [comments |-> trivia], Builder_comments(implementor, trivia))

\* the reader keeps the returned node for an enclosing production, beside
\* those of its nodes that it still holds (an argument is moved into the call
\* unless the reader passed a clone)
ReaderKeep ==
    /\ pc = "returned"
    /\ last.res.res = "Ok"
    /\ last.op # "comments"
    /\ \E rest \in SUBSET built :
          /\ Cardinality(rest \cup {last.res.val}) <= MaxBuilt
          /\ Held(rest \cup {last.res.val}) <= MaxKeep
          /\ built' = rest \cup {last.res.val}
    /\ last' = NoCall
    /\ pc' = "ready"
    /\ UNCHANGED <<debug_assertions, implementor>>

\* the reader lets the returned value go; after a panic nothing follows
ReaderDrop ==
    /\ pc = "returned"
    /\ last.res.res = "Ok"
    /\ last' = NoCall
    /\ pc' = "ready"
    /\ UNCHANGED <<debug_assertions, implementor, built>>

\* the reader hands a node on (it is no longer available as an argument)
ReaderForget ==
    /\ pc = "ready"
    /\ \E c \in built : built' = built \ {c}
    /\ UNCHANGED <<debug_assertions, implementor, last, pc>>

Next ==
    \/ CompleteCommand
    \/ AndOr
    \/ Pipeline
    \/ SimpleCommand
    \/ BraceGroup
    \/ SubshellCommand
    \/ LoopCommand
    \/ IfCommand
    \/ ForCommand
    \/ CaseCommand
    \/ FunctionDeclaration
    \/ Comments
    \/ ReaderKeep
    \/ ReaderDrop
    \/ ReaderForget

Spec == Init /\ [][Next]_vars

\* the same reader instantiated with any implementor
InitAnyBuilder ==
    /\ debug_assertions \in BOOLEAN
    /\ implementor \in Implementor
    /\ built = {}
    /\ last = NoCall
    /\ pc = "ready"

SpecAnyBuilder == InitAnyBuilder /\ [][Next]_vars

----------------------------------------------------------------------------
(* Claims about the reference builder. *)

Returned(op) == pc = "returned" /\ last.op = op

IsPipeOfStages ==
    /\ last.res.res = "Ok"
    /\ last.res.val.tag = "Pipe"
    /\ last.res.val.bang = last.args.bang
    /\ Len(last.res.val.cmds) = Len(last.args.cmds)
    /\ \A i \in 1..Len(last.args.cmds) : last.res.val.cmds[i] = last.args.cmds[i][2]

\* C2 as stated: for bang = true (any stage count) or more than one stage,
\* pipeline returns Ok(Pipe(bang, cs)).
C2_PipeForAnyStageCount ==
    (Returned("pipeline") /\ (last.args.bang \/ Len(last.args.cmds) > 1))
        => IsPipeOfStages

\* C2, amended: the same for every call with at least one stage.
C2_PipeForNonEmptyStages ==
    (Returned("pipeline") /\ Len(last.args.cmds) >= 1
        /\ (last.args.bang \/ Len(last.args.cmds) > 1))
        => IsPipeOfStages

\* a pipeline of two different stages, not negated, has returned
C2_Witness ==
    /\ Returned("pipeline")
    /\ ~last.args.bang
    /\ Len(last.args.cmds) = 2
    /\ last.args.cmds[1][2] # last.args.cmds[2][2]
    /\ last.res.res = "Ok"

\* C3: complete_command returns Ok(Job(c)) for Amp and Ok(c) for Semi, Other
\* and Newline(n); the trivia and the Newline payload change nothing.
C3_JobOnlyForAmp ==
    Returned("complete_command")
        => last.res = (IF last.args.separator.sep = "Amp"
                       THEN Ok(Job(last.args.cmd))
                       ELSE Ok(last.args.cmd))

\* a command ended by a newline, with trivia around it, has been completed
C3_Witness ==
    /\ Returned("complete_command")
    /\ last.args.separator.sep = "Newline"
    /\ last.args.pre # <<>> \/ last.args.post # <<>>

\* C4 as stated: every production call, with any arguments of the declared
\* types, completes and returns Ok.
C4_EveryCallReturnsOk ==
    pc = "returned" => last.res.res = "Ok"

\* C4, amended: no call returns an error, and every call returns Ok unless
\* it is pipeline with an empty stage list.
C4_OkUnlessEmptyPipeline ==
    pc = "returned"
        => /\ last.res.res # "Err"
           /\ ~(last.op = "pipeline" /\ Len(last.args.cmds) = 0)
                  => last.res.res = "Ok"

\* a pipeline with a stage has returned Ok in a build with debug assertions
C4_Witness ==
    /\ Returned("pipeline")
    /\ debug_assertions
    /\ Len(last.args.cmds) >= 1
    /\ last.res.res = "Ok"

IsBarePipe(n) == n.tag = "Pipe" /\ ~n.bang /\ Len(n.cmds) = 1

\* the trees the builder has returned: those the reader holds and the one
\* just returned
Trees ==
    built \cup (IF pc = "returned" /\ last.op # "comments" /\ last.res.res = "Ok"
                THEN {last.res.val} ELSE {})

\* C5: no tree built from the builder's own results holds a Pipe node with
\* bang = false and exactly one stage.
C5_NoBarePipe ==
    \A c \in Trees : \A n \in Nodes(c) : ~IsBarePipe(n)

\* a single-stage Pipe node (a negated one) sits inside a returned tree that
\* was built around it
C5_Witness ==
    /\ pc = "returned"
    /\ last.op \notin {"comments", "pipeline"}
    /\ last.res.res = "Ok"
    /\ \E n \in Nodes(last.res.val) :
          /\ n # last.res.val
          /\ n.tag = "Pipe"
          /\ Len(n.cmds) = 1

\* C6: and_or(a, And, trivia, b) returns Ok(And(a, b)) and and_or(a, Or,
\* trivia, b) returns Ok(Or(a, b)): first is the left operand, second the
\* right one, both unchanged, and the kind alone picks the node.
C6_AndOrKeepsOperands ==
    Returned("and_or")
        => /\ last.res.res = "Ok"
           /\ last.res.val.tag = last.args.kind
           /\ last.res.val.first = last.args.first
           /\ last.res.val.second = last.args.second

\* an Or of two different commands, with trivia after the separator
C6_Witness ==
    /\ Returned("and_or")
    /\ last.args.kind = "Or"
    /\ last.args.first # last.args.second
    /\ last.args.trivia # <<>>

\* C7: simple_command returns Ok(Simple{cmd, vars = env_vars, args, io =
\* redirects}), every list as given; without a command name too.
C7_SimpleKeepsEverything ==
    Returned("simple_command")
        => /\ last.res.res = "Ok"
           /\ last.res.val.tag = "Simple"
           /\ last.res.val.cmd = last.args.cmd
           /\ last.res.val.vars = last.args.env_vars
           /\ last.res.val.args = last.args.args
           /\ last.res.val.io = last.args.redirects

\* a simple command of two different assignments and no command name
C7_Witness ==
    /\ Returned("simple_command")
    /\ last.args.cmd = None
    /\ Len(last.args.env_vars) = 2
    /\ last.args.env_vars[1] # last.args.env_vars[2]

\* C8: for_command returns Ok(Compound(For(var, in_words, body), redirects))
\* with the optional word list as given (None stays None, Some([]) stays
\* Some([])), whatever the two trivia arguments.
C8_ForKeepsWordList ==
    Returned("for_command")
        => /\ last.res.res = "Ok"
           /\ last.res.val.tag = "Compound"
           /\ last.res.val.redirects = last.args.redirects
           /\ last.res.val.compound.ctag = "For"
           /\ last.res.val.compound.var = last.args.var
           /\ last.res.val.compound.body = last.args.body
           /\ IsSome(last.res.val.compound.words) = IsSome(last.args.in_words)
           /\ last.res.val.compound.words = last.args.in_words

\* a for command with a present but empty word list and trivia after it
C8_Witness ==
    /\ Returned("for_command")
    /\ last.args.in_words = Some(<<>>)
    /\ IsSome(last.args.t2)
    /\ last.args.t2 # Some(<<>>)
    /\ last.args.body # <<>>

\* C9: if_command returns Ok(Compound(If(branches, else_part), redirects)):
\* as many guard/body pairs, in the same order, each guard and body as given,
\* the else part as given, the redirects on the outer Compound node.
C9_IfRoundTrip ==
    Returned("if_command")
        => /\ last.res.res = "Ok"
           /\ last.res.val.tag = "Compound"
           /\ last.res.val.redirects = last.args.redirects
           /\ last.res.val.compound.ctag = "If"
           /\ Len(last.res.val.compound.branches) = Len(last.args.branches)
           /\ \A i \in 1..Len(last.args.branches) :
                 /\ last.res.val.compound.branches[i][1] = last.args.branches[i][1]
                 /\ last.res.val.compound.branches[i][2] = last.args.branches[i][2]
           /\ IsSome(last.res.val.compound.els) = IsSome(last.args.else_part)
           /\ last.res.val.compound.els = last.args.else_part

\* an if of two different branches, an else part and a redirect
C9_Witness ==
    /\ Returned("if_command")
    /\ Len(last.args.branches) = 2
    /\ last.args.branches[1] # last.args.branches[2]
    /\ IsSome(last.args.else_part)
    /\ last.args.redirects # <<>>

\* the node a compound production is to return: the variant, under the
\* redirects as given
IsCompound(v) ==
    /\ last.res.res = "Ok"
    /\ last.res.val.tag = "Compound"
    /\ last.res.val.redirects = last.args.redirects
    /\ last.res.val.compound = v

\* C10: brace_group gives Compound(Brace(cmds), redirects), subshell gives
\* Compound(Subshell(cmds), redirects), loop_command gives While(guard, body)
\* or Until(guard, body) by its kind, case_command gives Case(word, bs) with
\* one (patterns, body) pair per branch, in order, without the trivia.
C10_CompoundVariants ==
    /\ Returned("brace_group") => IsCompound(Brace(last.args.cmds))
    /\ Returned("subshell") => IsCompound(Subshell(last.args.cmds))
    /\ Returned("loop_command")
          => IsCompound([ctag |-> last.args.kind, guard |-> last.args.guard,
                         body |-> last.args.body])
    /\ Returned("case_command")
          => /\ IsCompound(last.res.val.compound)
             /\ last.res.val.compound.ctag = "Case"
             /\ last.res.val.compound.word = last.args.word
             /\ Len(last.res.val.compound.arms) = Len(last.args.branches)
             /\ \A i \in 1..Len(last.args.branches) :
                   last.res.val.compound.arms[i]
                       = <<last.args.branches[i][1][2], last.args.branches[i][2]>>

\* an until loop whose guard and body differ, under a redirect
C10_Witness ==
    /\ Returned("loop_command")
    /\ last.args.kind = "Until"
    /\ last.args.guard # last.args.body
    /\ last.args.redirects # <<>>

\* a case command with a pattern between two trivia lists has returned
C10_CaseWitness ==
    /\ Returned("case_command")
    /\ Len(last.args.branches) = 1
    /\ last.args.branches[1][1][2] # <<>>
    /\ last.args.branches[1][1][1] # <<>> \/ last.args.branches[1][1][3] # <<>>

\* C11: comments returns Ok(()) for every trivia list, and a comments call
\* placed anywhere between production calls changes nothing the reader
\* holds: the step that makes the call and the step that takes its return
\* leave every previously returned node and the build configuration as
\* they were, so the reader is back in the state it called from and every
\* later production call sees what it would have seen without the call.
C11_CommentsIsNoOp ==
    [][/\ (pc = "ready" /\ pc' = "returned" /\ last'.op = "comments") =>
            /\ last'.res = Ok(Unit)
            /\ built' = built
            /\ debug_assertions' = debug_assertions
       /\ Returned("comments") =>
            /\ built' = built
            /\ debug_assertions' = debug_assertions
            /\ last' = NoCall
            /\ pc' = "ready"]_vars

\* comments has returned from a call with a non-empty trivia list, made
\* while the reader holds nodes returned by earlier productions
C11_Witness ==
    /\ Returned("comments")
    /\ last.args.comments # <<>>
    /\ built # {}
    /\ last.res = Ok(Unit)

\* C12: through the adapter, each of the twelve Builder methods returns
\* exactly what the CommandBuilder method of the same name returns for the
\* same implementor and the same arguments in the same positions; where the
\* implementor overrides the method, the override is what is observed, and
\* it has received every argument of the call in its own position.
C12_AdapterForwards ==
    LET a == last.args
        T == implementor
    IN  /\ Returned("complete_command") =>
              last.res = CommandBuilder_complete_command(T, a.pre, a.cmd, a.separator, a.post)
        /\ Returned("and_or") =>
              last.res = CommandBuilder_and_or(T, a.first, a.kind, a.trivia, a.second)
        /\ Returned("pipeline") =>
              last.res = CommandBuilder_pipeline(T, a.bang, a.cmds)
        /\ Returned("simple_command") =>
              last.res = CommandBuilder_simple_command(T, a.env_vars, a.cmd, a.args, a.redirects)
        /\ Returned("brace_group") =>
              last.res = CommandBuilder_brace_group(T, a.cmds, a.redirects)
        /\ Returned("subshell") =>
              last.res = CommandBuilder_subshell(T, a.cmds, a.redirects)
        /\ Returned("loop_command") =>
              last.res = CommandBuilder_loop_command(T, a.kind, a.guard, a.body, a.redirects)
        /\ Returned("if_command") =>
              last.res = CommandBuilder_if_command(T, a.branches, a.else_part, a.redirects)
        /\ Returned("for_command") =>
              last.res = CommandBuilder_for_command(T, a.var, a.t1, a.in_words, a.t2,
                                                    a.body, a.redirects)
        /\ Returned("case_command") =>
              last.res = CommandBuilder_case_command(T, a.word, a.t1, a.branches, a.t2,
                                                     a.redirects)
        /\ Returned("function_declaration") =>
              last.res = CommandBuilder_function_declaration(T, a.name, a.body)
        /\ Returned("comments") =>
              last.res = CommandBuilder_comments(T, a.comments)
        /\ (pc = "returned" /\ T = "ProbeBuilder" /\ last.op \in Overridden) =>
              last.res = Seen(last.op, a)

\* an overridden complete_command has answered through the adapter a call
\* whose two comment lists differ
C12_Witness ==
    /\ Returned("complete_command")
    /\ implementor = "ProbeBuilder"
    /\ last.args.pre # last.args.post
    /\ last.res = Seen("complete_command", last.args)

\* a default method inherited by the overriding builder has answered
\* through the adapter
C12_InheritedWitness ==
    /\ Returned("loop_command")
    /\ implementor = "ProbeBuilder"
    /\ last.args.guard # last.args.body
    /\ last.res = Ok(Compound(IF last.args.kind = "While"
                               THEN While(last.args.guard, last.args.body)
                               ELSE Until(last.args.guard, last.args.body),
                               last.args.redirects))

\* the elements of a list
Range(v) == {v[i] : i \in 1..Len(v)}

\* the words, names and redirects a node itself stores
Values(c) ==
    CASE c.tag = "Simple" ->
            Range(c.cmd) \cup Range(c.args) \cup Range(c.io)
                \cup {c.vars[i][1] : i \in 1..Len(c.vars)}
                \cup UNION {Range(c.vars[i][2]) : i \in 1..Len(c.vars)}
      [] c.tag = "Function" -> {c.name}
      [] c.tag = "Compound" ->
            Range(c.redirects) \cup
            (CASE c.compound.ctag = "For" ->
                     {c.compound.var} \cup
                     (IF IsSome(c.compound.words) THEN Range(c.compound.words[1]) ELSE {})
               [] c.compound.ctag = "Case" ->
                     {c.compound.word} \cup
                     UNION {Range(c.compound.arms[i][1]) : i \in 1..Len(c.compound.arms)}
               [] OTHER -> {})
      [] OTHER -> {}

\* the same arguments with every trivia argument taken out: comment lists
\* emptied, an optional comment list absent, the payload of a Newline
\* separator replaced by a fixed one
NoComment == CHOOSE n \in Newline : TRUE
EraseSeparator(separator) ==
    IF separator.sep = "Newline" THEN [sep |-> "Newline", nl |-> NoComment] ELSE separator
EraseStages(cmds) == [i \in 1..Len(cmds) |-> <<(<<>>), cmds[i][2]>>]
EraseArms(branches) ==
    [i \in 1..Len(branches) |-> << <<(<<>>), branches[i][1][2], (<<>>)>>, branches[i][2]>>]

\* C13: the reference builder ignores all comments. Every production that
\* takes trivia returns what it returns for the same call with the trivia
\* taken out, so two calls that differ only in trivia (both have the same
\* call without trivia) return equal results; and no node of a returned
\* tree stores a trivia value.
C13_CommentsIgnored ==
    LET a == last.args
    IN  /\ Returned("complete_command") =>
              last.res = complete_command(<<>>, a.cmd, EraseSeparator(a.separator), <<>>)
        /\ Returned("and_or") =>
              last.res = and_or(a.first, a.kind, <<>>, a.second)
        /\ Returned("pipeline") =>
              last.res = pipeline(a.bang, EraseStages(a.cmds))
        /\ Returned("for_command") =>
              last.res = for_command(a.var, <<>>, a.in_words, None, a.body, a.redirects)
        /\ Returned("case_command") =>
              last.res = case_command(a.word, <<>>, EraseArms(a.branches), <<>>, a.redirects)
        /\ Returned("comments") =>
              last.res = comments(<<>>)
        /\ (pc = "returned" /\ last.res.res = "Ok" /\ last.op # "comments") =>
              \A c \in Nodes(last.res.val) : Values(c) \cap Newline = {}

\* a case command has returned from a call with a comment before a
\* non-empty pattern list
C13_Witness ==
    /\ Returned("case_command")
    /\ Len(last.args.branches) = 1
    /\ last.args.branches[1][1][1] # <<>>
    /\ last.args.branches[1][1][2] # <<>>
    /\ last.res.res = "Ok"
    /\ last.res.val.compound.arms[1][1] = last.args.branches[1][1][2]

\* a command line ended by a newline carrying a comment has returned
C13_NewlineWitness ==
    /\ Returned("complete_command")
    /\ last.args.separator.sep = "Newline"
    /\ last.args.separator.nl # NoComment
    /\ last.args.pre # <<>>
    /\ last.res = Ok(last.args.cmd)

====
